---- MODULE Spec2Model ----
(***************************************************************************)
(* ExecutorsManager of codesandbox-client: the singleton that picks the    *)
(* executor (browser bundler or server container) a sandbox needs, keeps   *)
(* at most one of them in this.executor, and relays file snapshots to it.  *)
(* Every async method is split at its await points; the backend's promises *)
(* resolve or reject nondeterministically.                                 *)
(***************************************************************************)
EXTENDS Integers, Sequences, FiniteSets, TLC

\* ------------------------------------------------------------------ bounds

\* Callers that may have a manager call in flight at the same time.
NumCallers == 2
\* Executors constructed in one behaviour.
MaxInstances == 3
\* Modules of a sandbox handed to getModulesToSend in FilesSpec.
MaxModules == 3

Callers == 1..NumCallers
\* The one caller of the sequential specification: the first one.
Main == CHOOSE p \in Callers : \A q \in Callers : p <= q

\* ------------------------------------------------------- JavaScript values

Undefined == "<undefined>"
Null == "<null>"
\* ToBoolean of a string-or-nullish value: `if (path)`.
Truthy(v) == v \notin {"", Undefined, Null}

\* this.executor === undefined
None == 0

\* ------------------------------------------------------------- the sandbox

ServerExecutor == "ServerExecutor"
SandboxExecutor == "SandboxExecutor"

\* Template registry: the manager reads only isServer.
getDefinition(template) == [isServer |-> template \in {"node", "gatsby"}]

\* Manifest generator: the text of a default package.json for the sandbox.
generateFileFromSandbox(sandbox) == "generated:" \o sandbox.id

\* Lines 11-17.
getExecutorType(isServer) == IF isServer THEN ServerExecutor ELSE SandboxExecutor

\* The object literal {} and the assignment modulesObject[path] = entry.
EmptyFiles == [p \in {} |-> Null]

SetKey(files, path, entry) ==
  [p \in DOMAIN files \cup {path} |-> IF p = path THEN entry ELSE files[p]]

ModuleEntry(m) ==
  [code |-> m.code, savedCode |-> m.savedCode, path |-> m.path, isBinary |-> m.isBinary]

ManifestEntry(sandbox) ==
  [code |-> generateFileFromSandbox(sandbox), savedCode |-> Null,
   path |-> "/package.json", isBinary |-> "false"]

\* sandbox.modules.forEach(m => { if (path) modulesObject[path] = {...} })
\* over modules[i..], starting from the object built so far.
RECURSIVE ForEachModule(_, _, _)
ForEachModule(modules, i, files) ==
  IF i > Len(modules) THEN files
  ELSE ForEachModule(modules, i + 1,
         IF Truthy(modules[i].path)
           THEN SetKey(files, modules[i].path, ModuleEntry(modules[i]))
           ELSE files)

\* A forEach that keeps the first module of a path instead of the last.
RECURSIVE ForEachModuleFirstWins(_, _, _)
ForEachModuleFirstWins(modules, i, files) ==
  IF i > Len(modules) THEN files
  ELSE ForEachModuleFirstWins(modules, i + 1,
         IF Truthy(modules[i].path) /\ modules[i].path \notin DOMAIN files
           THEN SetKey(files, modules[i].path, ModuleEntry(modules[i]))
           ELSE files)

getModulesToSendFirstWins(sandbox) ==
  LET modulesObject == ForEachModuleFirstWins(sandbox.modules, 1, EmptyFiles)
  IN IF "/package.json" \notin DOMAIN modulesObject
       THEN SetKey(modulesObject, "/package.json", ManifestEntry(sandbox))
       ELSE modulesObject

\* Lines 19-44.
getModulesToSend(sandbox) ==
  LET modulesObject == ForEachModule(sandbox.modules, 1, EmptyFiles)
  IN \* an entry is an object, so !modulesObject[k] is true iff k is absent
     IF "/package.json" \notin DOMAIN modulesObject
       THEN SetKey(modulesObject, "/package.json", ManifestEntry(sandbox))
       ELSE modulesObject

Module(path, code, savedCode, isBinary) ==
  [path |-> path, code |-> code, savedCode |-> savedCode, isBinary |-> isBinary]

NoSandbox == [id |-> "", template |-> "", modules |-> <<>>]

\* The sandboxes the manager is driven with: a server one without a manifest,
\* a browser one with its own manifest, a second server one with a duplicate
\* path and a module without a path.
Sandboxes ==
  { [id |-> "s1", template |-> "node",
     modules |-> <<Module("/a.js", "x", Undefined, Undefined)>>],
    [id |-> "s2", template |-> "create-react-app",
     modules |-> <<Module("/package.json", "p", "p", "false")>>],
    [id |-> "s3", template |-> "gatsby",
     modules |-> <<Module("/a.js", "x", "x", "false"),
                   Module("", "y", Undefined, Undefined),
                   Module("/a.js", "z", "x", "false")>>] }

\* The modules FilesSpec draws its sandboxes from.
ModulePaths == {"/a.js", "/package.json", "", Undefined}
ModuleSet ==
  { Module(p, c, s[1], s[2]) :
      p \in ModulePaths, c \in {"x", "y"},
      s \in {<<Undefined, Undefined>>, <<"s", "true">>} }

RECURSIVE SeqsUpTo(_, _)
SeqsUpTo(S, n) ==
  IF n = 0 THEN {<<>>}
  ELSE LET shorter == SeqsUpTo(S, n - 1)
       IN shorter \cup {Append(q, e) : q \in {r \in shorter : Len(r) = n - 1}, e \in S}

\* --------------------------------------------------------------- the state

VARIABLES
  executor,    \* this.executor: None or the id of an executor
  instances,   \* the executors constructed so far, by id
  pc,          \* per caller: "idle" or the await it is suspended at
  local,       \* per caller: the call in flight
  outcome,     \* the last completed call
  lastInit,    \* the last initializeExecutor call, if it returned and no
               \* closeExecutor or failed initializeExecutor followed
  lastClosed,  \* the executor the last closeExecutor disposed, until the
               \* next initializeExecutor call
  sandboxIn,   \* FilesSpec: the sandbox handed to getModulesToSend
  filesOut     \* FilesSpec: what it returned

vars == <<executor, instances, pc, local, outcome, lastInit,
          lastClosed, sandboxIn, filesOut>>

managerVars == <<executor, instances, pc, local, outcome, lastInit,
                 lastClosed>>

\* An executor as constructed by `new ExecutorType()`. builtForServer records
\* the isServer flag of the template it was constructed for, disposeCalls how
\* often its dispose() was invoked (0, 1, or 2 for twice or more), disposed
\* that a dispose() of it has fulfilled.
NewInstance(ExecutorType, isServer) ==
  [class |-> ExecutorType, builtForServer |-> isServer,
   disposeCalls |-> 0, disposed |-> FALSE]

CountUp(n) == IF n >= 2 THEN 2 ELSE n + 1

\* One backend operation invoked by a call: the operation, the executor it
\* was invoked on, and its argument.
NoArg == <<>>
Ev(ev, inst, arg) == [ev |-> ev, inst |-> inst, arg |-> arg]

NoInit == [valid |-> FALSE, sandbox |-> NoSandbox, value |-> None]

\* A call as it starts: what it was given and what it found.
Call(op, s) ==
  [op |-> op, sandbox |-> s, before |-> executor, awaited |-> None,
   log |-> <<>>, prevInit |-> lastInit, afterClose |-> lastClosed,
   prevSame |-> <<>>]

NoCall ==
  [op |-> "none", sandbox |-> NoSandbox, before |-> None, awaited |-> None,
   log |-> <<>>, prevInit |-> NoInit, afterClose |-> None, prevSame |-> <<>>]

\* A call as it ends: status is "returned" or "threw" (for an async method,
\* its promise fulfilled or rejected); value is the executor it returned and
\* flag the boolean it returned, where it returns one.
Done(c, status, value, flag) ==
  [op |-> c.op, sandbox |-> c.sandbox, before |-> c.before, status |-> status,
   value |-> value, flag |-> flag, log |-> c.log, prevInit |-> c.prevInit,
   afterClose |-> c.afterClose, prevSame |-> c.prevSame]

NoOutcome == Done(NoCall, "none", None, FALSE)

Logged(c, ev, inst, arg) == [c EXCEPT !.log = Append(@, Ev(ev, inst, arg))]

\* The history of calls (outcome, lastInit, lastClosed, and the log and the
\* findings of a call in flight) is kept where h holds, and left as it is
\* where it does not.
Rec(h, old, new) == IF h THEN new ELSE old

\* Without the history a suspended call keeps what its continuation reads:
\* the sandbox while initializeExecutor awaits dispose (lines 73-87 follow),
\* and the executor whose dispose it awaits.
Kept(h, c) ==
  IF h THEN c
  ELSE LET awaitsDispose == c.log[Len(c.log)].ev = "dispose"
       IN [NoCall EXCEPT
             !.op = c.op,
             !.sandbox = IF awaitsDispose /\ c.op = "initializeExecutor"
                           THEN c.sandbox ELSE NoSandbox,
             !.awaited = IF awaitsDispose THEN c.awaited ELSE None]

ManagerInit ==
  /\ executor = None
  /\ instances = <<>>
  /\ pc = [p \in Callers |-> "idle"]
  /\ local = [p \in Callers |-> NoCall]
  /\ outcome = NoOutcome
  /\ lastInit = NoInit
  /\ lastClosed = None

Init ==
  /\ ManagerInit
  /\ sandboxIn = NoSandbox
  /\ filesOut = [done |-> FALSE, files |-> EmptyFiles]

\* ----------------------------------------------------- initializeExecutor

\* Line 67 without its test of the executor's class, reusing whatever is there.
AlwaysReuse(ExecutorType) == FALSE

\* Line 67 without its test of the executor's class, disposing whatever is there.
AlwaysDispose(ExecutorType) == executor # None

\* Line 67: this.executor && !(this.executor instanceof ExecutorType)
MustDispose(ExecutorType) ==
  executor # None /\ instances[executor].class # ExecutorType

\* Room left, within MaxInstances, for the executors that the calls
\* suspended at line 68 will construct and for one more.
CanConstruct ==
  Len(instances) + Cardinality({q \in Callers : pc[q] = "initDispose"}) < MaxInstances

\* Lines 77-79, for process.env.STAGING_API set or not.
sseHost(stagingApi) ==
  IF stagingApi THEN "https://codesandbox.stream" ELSE "https://codesandbox.io"

\* Lines 73-87 for a call c that reaches them with this.executor = e and the
\* executors insts: construct an executor if there is none, invoke its
\* initialize, and suspend.
ConstructAndInitialize(p, c, e, insts, h) ==
  LET isServer == getDefinition(c.sandbox.template).isServer
      ExecutorType == getExecutorType(isServer)
      insts2 == IF e = None THEN Append(insts, NewInstance(ExecutorType, isServer))
                ELSE insts
      e2 == IF e = None THEN Len(insts) + 1 ELSE e
      c2 == IF e = None THEN Logged(c, "construct", e2, NoArg) ELSE c
  IN /\ instances' = insts2
     /\ executor' = e2
     /\ pc' = [pc EXCEPT ![p] = "initInitialize"]
     /\ \E stagingApi \in BOOLEAN :
          LET arg == [sandboxId |-> c.sandbox.id, files |-> getModulesToSend(c.sandbox),
                      host |-> sseHost(stagingApi)]
          IN local' = [local EXCEPT ![p] =
               Kept(h, [Logged(c2, "initialize", e2, arg) EXCEPT !.awaited = e2])]

\* Lines 62-68 or 62-81: the call up to its first await.
InitStart(p, s, h) ==
  /\ pc[p] = "idle"
  /\ LET ExecutorType == getExecutorType(getDefinition(s.template).isServer)
         c == Call("initializeExecutor", s)
     IN IF MustDispose(ExecutorType)
          THEN /\ CanConstruct
               /\ instances' = [instances EXCEPT ![executor].disposeCalls = CountUp(@)]
               /\ pc' = [pc EXCEPT ![p] = "initDispose"]
               /\ local' = [local EXCEPT ![p] = Kept(h, [Logged(c, "dispose", executor, NoArg)
                                                   EXCEPT !.awaited = executor])]
               /\ UNCHANGED executor
          ELSE /\ executor = None => CanConstruct
               /\ ConstructAndInitialize(p, c, executor, instances, h)
  /\ lastClosed' = Rec(h, lastClosed, None)
  /\ UNCHANGED <<outcome, lastInit, sandboxIn, filesOut>>

\* A dispose failure that clears the reference all the same.
ClearedAnyway(e) == None

\* this.executor after line 68 threw: line 70 is not reached.
ExecutorAfterDisposeRejected(e) == e

\* Lines 70-81: dispose() fulfilled; clear the reference, construct, initialize.
InitDisposeResolved(p, h) ==
  /\ pc[p] = "initDispose"
  /\ ConstructAndInitialize(p, Logged(local[p], "disposed", local[p].awaited, NoArg),
       None, [instances EXCEPT ![local[p].awaited].disposed = TRUE], h)
  /\ UNCHANGED <<outcome, lastInit, lastClosed, sandboxIn, filesOut>>

\* Line 68: dispose() rejected; the rejection leaves initializeExecutor.
InitDisposeRejected(p, h) ==
  /\ pc[p] = "initDispose"
  /\ executor' = ExecutorAfterDisposeRejected(executor)
  /\ pc' = [pc EXCEPT ![p] = "idle"]
  /\ local' = [local EXCEPT ![p] = NoCall]
  /\ outcome' = Rec(h, outcome,
       Done(Logged(local[p], "disposeFailed", local[p].awaited, NoArg),
            "threw", None, FALSE))
  /\ lastInit' = Rec(h, lastInit, NoInit)
  /\ UNCHANGED <<instances, lastClosed, sandboxIn, filesOut>>

\* Line 89: initialize() fulfilled; return this.executor.
InitInitializeResolved(p, h) ==
  /\ pc[p] = "initInitialize"
  /\ pc' = [pc EXCEPT ![p] = "idle"]
  /\ local' = [local EXCEPT ![p] = NoCall]
  /\ outcome' = Rec(h, outcome, Done(local[p], "returned", executor, FALSE))
  /\ lastInit' = Rec(h, lastInit,
       [valid |-> TRUE, sandbox |-> local[p].sandbox, value |-> executor])
  /\ UNCHANGED <<executor, instances, lastClosed, sandboxIn, filesOut>>

\* An initialize failure that drops the executor.
RolledBack(e) == None

\* this.executor after line 81 threw: no catch, nothing is assigned.
ExecutorAfterInitializeRejected(e) == e

\* Line 81: initialize() rejected; the rejection leaves initializeExecutor.
InitInitializeRejected(p, h) ==
  /\ pc[p] = "initInitialize"
  /\ executor' = ExecutorAfterInitializeRejected(executor)
  /\ pc' = [pc EXCEPT ![p] = "idle"]
  /\ local' = [local EXCEPT ![p] = NoCall]
  /\ outcome' = Rec(h, outcome,
       Done(Logged(local[p], "initializeFailed", local[p].awaited, NoArg),
            "threw", None, FALSE))
  /\ lastInit' = Rec(h, lastInit, NoInit)
  /\ UNCHANGED <<instances, lastClosed, sandboxIn, filesOut>>

\* ------------------------------------------------------------ setupExecutor

\* A guarded method: with no executor it returns without doing anything.
CallOnNothingIgnored(p, c, h) ==
  /\ pc' = [pc EXCEPT ![p] = "idle"]
  /\ local' = [local EXCEPT ![p] = NoCall]
  /\ outcome' = Rec(h, outcome, Done(c, "returned", None, FALSE))

\* A method call on this.executor when it is undefined: a TypeError, and the
\* method is never entered.
CallOnNothing(p, c, h) ==
  /\ pc' = [pc EXCEPT ![p] = "idle"]
  /\ local' = [local EXCEPT ![p] = NoCall]
  /\ outcome' = Rec(h, outcome, Done(c, "threw", None, FALSE))

\* Line 93, up to the promise of setup().
SetupStart(p, h) ==
  /\ pc[p] = "idle"
  /\ LET c == Call("setupExecutor", NoSandbox)
     IN IF executor = None
          THEN CallOnNothing(p, c, h)
          ELSE /\ pc' = [pc EXCEPT ![p] = "setup"]
               /\ local' = [local EXCEPT ![p] = Kept(h, [Logged(c, "setup", executor, NoArg)
                                                   EXCEPT !.awaited = executor])]
               /\ UNCHANGED outcome
  /\ UNCHANGED <<executor, instances, lastInit, lastClosed, sandboxIn, filesOut>>

\* Line 93: setup() settled; setupExecutor settles the same way.
SetupSettled(p, status, h) ==
  /\ pc[p] = "setup"
  /\ pc' = [pc EXCEPT ![p] = "idle"]
  /\ local' = [local EXCEPT ![p] = NoCall]
  /\ outcome' = Rec(h, outcome, Done(local[p], status, None, FALSE))
  /\ UNCHANGED <<executor, instances, lastInit, lastClosed, sandboxIn, filesOut>>

\* --------------------------------------------------- isServer, getExecutor

\* An isServer that only tests that there is an executor.
isServerOfAny == executor # None

\* Line 97: this.executor instanceof ServerExecutor
isServer == executor # None /\ instances[executor].class = ServerExecutor

IsServer(p, h) ==
  /\ pc[p] = "idle"
  /\ outcome' = Rec(h, outcome,
       Done(Call("isServer", NoSandbox), "returned", None, isServer))
  /\ UNCHANGED <<executor, instances, pc, local, lastInit, lastClosed,
                 sandboxIn, filesOut>>

\* Line 116.
getExecutor == executor

GetExecutor(p, h) ==
  /\ pc[p] = "idle"
  /\ outcome' = Rec(h, outcome,
       Done(Call("getExecutor", NoSandbox), "returned", getExecutor, FALSE))
  /\ UNCHANGED <<executor, instances, pc, local, lastInit, lastClosed,
                 sandboxIn, filesOut>>

\* -------------------------------------------------------------- updateFiles

\* An updateFiles that drops an executor of the kind s does not require.
UpdateFilesReinitialized(s) ==
  IF executor # None
       /\ instances[executor].class # getExecutorType(getDefinition(s.template).isServer)
    THEN None
    ELSE executor

\* this.executor after updateFiles(s): the method assigns nothing.
ExecutorAfterUpdateFiles(s) == executor

\* Lines 101-103. prevSame is what the previous call forwarded, when
\* the last completed call was updateFiles of the same sandbox.
UpdateFiles(p, s, h) ==
  /\ pc[p] = "idle"
  /\ LET modules == getModulesToSend(s)
         c == [Call("updateFiles", s) EXCEPT !.prevSame =
                 IF /\ outcome.op = "updateFiles"
                    /\ outcome.sandbox = s
                    /\ outcome.status = "returned"
                   THEN outcome.log
                   ELSE <<>>]
     IN IF executor = None
          THEN CallOnNothing(p, c, h)
          ELSE /\ outcome' = Rec(h, outcome,
                    Done(Logged(c, "updateFiles", executor, modules), "returned", None, FALSE))
               /\ UNCHANGED <<pc, local>>
  /\ executor' = ExecutorAfterUpdateFiles(s)
  /\ UNCHANGED <<instances, lastInit, lastClosed, sandboxIn, filesOut>>

\* ------------------------------------------------------------ closeExecutor

\* Lines 119-120, up to the promise of dispose().
CloseStart(p, h) ==
  /\ pc[p] = "idle"
  /\ LET c == Call("closeExecutor", NoSandbox)
     IN IF executor = None
          THEN /\ CallOnNothing(p, c, h)
               /\ UNCHANGED instances
          ELSE /\ instances' = [instances EXCEPT ![executor].disposeCalls = CountUp(@)]
               /\ pc' = [pc EXCEPT ![p] = "closeDispose"]
               /\ local' = [local EXCEPT ![p] = Kept(h, [Logged(c, "dispose", executor, NoArg)
                                                   EXCEPT !.awaited = executor])]
               /\ UNCHANGED outcome
  /\ lastInit' = Rec(h, lastInit, NoInit)
  /\ UNCHANGED <<executor, lastClosed, sandboxIn, filesOut>>

\* A closeExecutor that forgets line 121.
KeptAfterClose(e) == e

\* Line 121: this.executor = undefined
ExecutorAfterClose(e) == None

\* Line 121: dispose() fulfilled.
CloseResolved(p, h) ==
  /\ pc[p] = "closeDispose"
  /\ executor' = ExecutorAfterClose(executor)
  /\ instances' = [instances EXCEPT ![local[p].awaited].disposed = TRUE]
  /\ pc' = [pc EXCEPT ![p] = "idle"]
  /\ local' = [local EXCEPT ![p] = NoCall]
  /\ outcome' = Rec(h, outcome,
       Done(Logged(local[p], "disposed", local[p].awaited, NoArg), "returned", None, FALSE))
  /\ lastClosed' = Rec(h, lastClosed, local[p].awaited)
  /\ UNCHANGED <<lastInit, sandboxIn, filesOut>>

\* Line 120: dispose() rejected; line 121 is not reached.
CloseRejected(p, h) ==
  /\ pc[p] = "closeDispose"
  /\ pc' = [pc EXCEPT ![p] = "idle"]
  /\ local' = [local EXCEPT ![p] = NoCall]
  /\ outcome' = Rec(h, outcome,
       Done(Logged(local[p], "disposeFailed", local[p].awaited, NoArg), "threw", None, FALSE))
  /\ UNCHANGED <<executor, instances, lastInit, lastClosed, sandboxIn, filesOut>>

\* ------------------------------------------------------- the specifications

\* One step of caller p: it starts a call when it has none in flight, or the
\* promise it awaits settles.
Step(p, h) ==
  \/ \E s \in Sandboxes : InitStart(p, s, h)
  \/ InitDisposeResolved(p, h)
  \/ InitDisposeRejected(p, h)
  \/ InitInitializeResolved(p, h)
  \/ InitInitializeRejected(p, h)
  \/ SetupStart(p, h)
  \/ \E status \in {"returned", "threw"} : SetupSettled(p, status, h)
  \/ IsServer(p, h)
  \/ GetExecutor(p, h)
  \/ \E s \in Sandboxes : UpdateFiles(p, s, h)
  \/ CloseStart(p, h)
  \/ CloseResolved(p, h)
  \/ CloseRejected(p, h)

\* Any caller may call while another's call is suspended.
Next == \E p \in Callers : Step(p, FALSE)

Spec == Init /\ [][Next]_vars

\* One caller, which awaits each call before it makes the next.
SeqNext == Step(Main, TRUE)

SeqSpec == Init /\ [][SeqNext]_vars

\* getModulesToSend alone, over every sandbox of at most MaxModules modules.
FilesInit ==
  /\ ManagerInit
  /\ sandboxIn \in [id : {"s"}, template : {"node"}, modules : SeqsUpTo(ModuleSet, MaxModules)]
  /\ filesOut = [done |-> FALSE, files |-> EmptyFiles]

Derive ==
  /\ ~filesOut.done
  /\ filesOut' = [done |-> TRUE, files |-> getModulesToSend(sandboxIn)]
  /\ UNCHANGED <<managerVars, sandboxIn>>

FilesSpec == FilesInit /\ [][Derive]_vars

\* ------------------------------------------------------------------ claims

\* The executor class of a required kind (isServer of the sandbox's template).
RequiredServer(s) == getDefinition(s.template).isServer
ClassOfKind(server) == IF server THEN "ServerExecutor" ELSE "SandboxExecutor"

Events(log, ev) == {i \in 1..Len(log) : log[i].ev = ev}

\* The sequential caller has no call in flight and its last call was op.
Completed(op) == pc[Main] = "idle" /\ outcome.op = op

\* C1: after an initializeExecutor(S) call that no other call overlaps returns,
\* whatever executor was active before it, the active executor is not none, is
\* of the kind S's template requires, and is the instance the call returned.
C1_InitializeReturnsActive ==
  (Completed("initializeExecutor") /\ outcome.status = "returned") =>
    /\ getExecutor # None
    /\ instances[getExecutor].class = ClassOfKind(RequiredServer(outcome.sandbox))
    /\ instances[getExecutor].builtForServer = RequiredServer(outcome.sandbox)
    /\ outcome.value = getExecutor

\* C1's case: a returned call that found an executor of the other kind.
C1_Witness ==
  /\ Completed("initializeExecutor") /\ outcome.status = "returned"
  /\ outcome.before # None
  /\ instances[outcome.before].class # ClassOfKind(RequiredServer(outcome.sandbox))

\* C2: of two consecutive returned initializeExecutor calls, the second
\* invokes dispose iff the required kinds differ: with the same kind it invokes
\* no dispose, constructs nothing and keeps the instance; with a different kind
\* it invokes dispose exactly once, on the first call's instance, that dispose
\* completes before the new instance is constructed, and the new instance is of
\* the second kind (so server then browser ends with isServer() false).
C2_DisposeIffKindChanges ==
  (Completed("initializeExecutor") /\ outcome.status = "returned"
     /\ outcome.prevInit.valid) =>
    LET K1 == RequiredServer(outcome.prevInit.sandbox)
        K2 == RequiredServer(outcome.sandbox)
        old == outcome.prevInit.value
        log == outcome.log
    IN /\ K1 = K2 =>
            /\ Events(log, "dispose") = {}
            /\ Events(log, "construct") = {}
            /\ executor = old
       /\ K1 # K2 =>
            /\ Len(log) = 4
            /\ log[1] = Ev("dispose", old, NoArg)
            /\ log[2] = Ev("disposed", old, NoArg)
            /\ log[3] = Ev("construct", executor, NoArg)
            /\ log[4].ev = "initialize" /\ log[4].inst = executor
            /\ executor # old
            /\ instances[old].disposed
            /\ instances[executor].class = ClassOfKind(K2)
            /\ isServer = K2

\* C2's case: initialize(server sandbox) then initialize(browser sandbox).
C2_Witness ==
  /\ Completed("initializeExecutor") /\ outcome.status = "returned"
  /\ outcome.prevInit.valid
  /\ RequiredServer(outcome.prevInit.sandbox)
  /\ ~RequiredServer(outcome.sandbox)
  /\ ~isServer

Live == {i \in 1..Len(instances) : ~instances[i].disposed}

\* C3: under every interleaving of the calls at their await points, at most
\* one executor is live (constructed and not yet disposed), every executor the
\* manager no longer references has had dispose invoked, and dispose is never
\* invoked twice on one executor.
C3_AtMostOneLive ==
  /\ Cardinality(Live) <= 1
  /\ \A i \in 1..Len(instances) : i # executor => instances[i].disposeCalls >= 1
  /\ \A i \in 1..Len(instances) : instances[i].disposeCalls <= 1

\* The initializeExecutor call ended by the rejection of the dispose of line 68.
DisposeFailedInInitialize ==
  /\ Completed("initializeExecutor") /\ outcome.status = "threw"
  /\ outcome.log[Len(outcome.log)].ev = "disposeFailed"

\* C4 as claimed: when the dispose that initializeExecutor invokes on an
\* executor of the other kind fails, the failure propagates, nothing is
\* constructed or initialized, and the manager is left with no active executor.
C4_DisposeFailureClears ==
  DisposeFailedInInitialize =>
    /\ Events(outcome.log, "construct") = {}
    /\ Events(outcome.log, "initialize") = {}
    /\ getExecutor = None

\* C4 as amended: when that dispose fails, the failure propagates, nothing is
\* constructed or initialized, and the manager still holds the executor whose
\* dispose failed.
C4_DisposeFailureKeepsOld ==
  DisposeFailedInInitialize =>
    /\ outcome.log = <<Ev("dispose", outcome.before, NoArg),
                       Ev("disposeFailed", outcome.before, NoArg)>>
    /\ outcome.before # None
    /\ instances[outcome.before].class # ClassOfKind(RequiredServer(outcome.sandbox))
    /\ getExecutor = outcome.before
    /\ ~instances[outcome.before].disposed

C4_Witness ==
  DisposeFailedInInitialize /\ getExecutor # None

\* C5: a closeExecutor call that found an executor and returned has invoked
\* dispose exactly once, on that executor; from then until the next
\* initializeExecutor call there is no active executor and isServer() is false;
\* and that next call constructs a new executor instead of reusing the old one.
C5_CloseClears ==
  /\ (Completed("closeExecutor") /\ outcome.status = "returned") =>
       /\ outcome.before # None
       /\ outcome.log = <<Ev("dispose", outcome.before, NoArg),
                          Ev("disposed", outcome.before, NoArg)>>
       /\ lastClosed = outcome.before
  /\ lastClosed # None => (getExecutor = None /\ ~isServer)
  /\ (pc[Main] = "initInitialize" /\ local[Main].afterClose # None) =>
       /\ local[Main].log[1] = Ev("construct", executor, NoArg)
       /\ executor # local[Main].afterClose
       /\ ~instances[executor].disposed /\ instances[executor].disposeCalls = 0
  /\ (Completed("initializeExecutor") /\ outcome.afterClose # None) =>
       /\ outcome.log[1] = Ev("construct", executor, NoArg)
       /\ executor # outcome.afterClose

\* C5's case: close, then an initializeExecutor call that returned.
C5_Witness ==
  /\ Completed("initializeExecutor") /\ outcome.status = "returned"
  /\ outcome.afterClose # None
  /\ instances[outcome.afterClose].disposed

\* C6: in every reachable state isServer() is true iff there is an active
\* executor and it was constructed for the server kind, so it is false with a
\* browser executor and with none; and calling it changes no state.
C6_IsServerIffServerKind ==
  /\ [](isServer <=> (executor # None /\ instances[executor].builtForServer))
  /\ [](executor = None => ~isServer)
  /\ [][\A p \in Callers : \A h \in BOOLEAN :
          IsServer(p, h) =>
            UNCHANGED <<executor, instances, pc, local, lastInit, lastClosed>>]_vars

\* C6's case: a browser executor is active after a server one.
C6_Witness ==
  /\ executor # None /\ ~instances[executor].builtForServer /\ ~isServer
  /\ \E i \in 1..Len(instances) : instances[i].builtForServer

\* The modules whose path is not empty or missing.
WithPath(modules) == {i \in 1..Len(modules) : Truthy(modules[i].path)}

\* C7: the snapshot has one entry per distinct non-empty module path, taken
\* from the last module with that path; modules with an empty or missing path
\* add nothing; and the '/package.json' entry is the synthesized one (savedCode
\* null, isBinary false) iff no module has that path.
C7_SnapshotDerivation ==
  filesOut.done =>
    LET ms == sandboxIn.modules
        f == filesOut.files
        named == WithPath(ms)
        supplied == \E i \in named : ms[i].path = "/package.json"
    IN /\ DOMAIN f = {ms[i].path : i \in named} \cup {"/package.json"}
       /\ \A i \in named :
            (\A j \in named : ms[j].path = ms[i].path => j <= i) =>
              /\ f[ms[i].path].code = ms[i].code
              /\ f[ms[i].path].savedCode = ms[i].savedCode
              /\ f[ms[i].path].isBinary = ms[i].isBinary
       /\ (f["/package.json"].code = generateFileFromSandbox(sandboxIn)) <=> ~supplied
       /\ ~supplied => (f["/package.json"].savedCode = Null
                          /\ f["/package.json"].isBinary = "false")

\* C7's case: a path given twice with different code, a module without a path,
\* and a module-supplied '/package.json'.
C7_Witness ==
  /\ filesOut.done
  /\ LET ms == sandboxIn.modules
     IN /\ Len(ms) = 3
        /\ ms[1].path = "/package.json" /\ ms[2].path = "" /\ ms[3].path = "/package.json"
        /\ ms[1].code # ms[3].code
        /\ filesOut.files["/package.json"].code = ms[3].code

\* The initializeExecutor call ended by the rejection of the initialize of line 81.
InitializeFailed ==
  /\ Completed("initializeExecutor") /\ outcome.status = "threw"
  /\ outcome.log[Len(outcome.log)].ev = "initializeFailed"

\* C8: when the backend's initialize fails, the failure propagates, initialize
\* was invoked once and nothing was disposed or rolled back after it, and the
\* manager keeps the executor of S's kind it constructed or reused.
C8_InitializeFailureKeepsExecutor ==
  InitializeFailed =>
    LET log == outcome.log
        n == Len(log)
    IN /\ Cardinality(Events(log, "initialize")) = 1
       /\ log[n - 1].ev = "initialize"
       /\ getExecutor = log[n - 1].inst
       /\ getExecutor # None
       /\ instances[getExecutor].class = ClassOfKind(RequiredServer(outcome.sandbox))
       /\ log[n].inst = getExecutor
       /\ ~instances[getExecutor].disposed

\* C8's case: the initialize of a kind switch fails.
C8_Witness ==
  /\ InitializeFailed
  /\ outcome.before # None /\ outcome.before # executor

NoExecutorOps == {"setupExecutor", "updateFiles", "closeExecutor"}

\* C9: with no active executor, setupExecutor, updateFiles and closeExecutor
\* end in an error, invoke no backend operation, and leave no active executor.
C9_NoExecutorFails ==
  (pc[Main] = "idle" /\ outcome.op \in NoExecutorOps /\ outcome.before = None) =>
    /\ outcome.status = "threw"
    /\ outcome.log = <<>>
    /\ getExecutor = None

\* C9's case: closeExecutor after a closeExecutor that disposed an executor.
C9_Witness ==
  /\ Completed("closeExecutor") /\ outcome.before = None
  /\ lastClosed # None

\* C10: updateFiles(S) with an active executor forwards one snapshot, the one
\* derived from S, to that executor, and disposes, constructs and replaces
\* nothing, whatever kind S requires; a second updateFiles(S) right after it
\* forwards the same snapshot to the same executor.
C10_UpdateFilesForwardsOnly ==
  /\ []((Completed("updateFiles") /\ outcome.before # None) =>
          /\ outcome.status = "returned"
          /\ outcome.log = <<Ev("updateFiles", outcome.before, getModulesToSend(outcome.sandbox))>>
          /\ getExecutor = outcome.before
          /\ outcome.prevSame # <<>> => outcome.prevSame = outcome.log)
  /\ [][(outcome' # outcome /\ outcome'.op = "updateFiles") =>
          (executor' = executor /\ instances' = instances)]_vars

\* C10's case: two updateFiles(S) in a row with an executor of the kind S
\* does not require.
C10_Witness ==
  /\ Completed("updateFiles") /\ outcome.before # None
  /\ outcome.prevSame # <<>>
  /\ instances[outcome.before].class # ClassOfKind(RequiredServer(outcome.sandbox))

====
